---- MODULE Spec2Model ----
(***************************************************************************)
(* OutputCounter (src/main.cpp): a trivially copyable handle to an array   *)
(* of N size_t counters in device memory, zeroed by pre_kernel, bumped by  *)
(* get_add_output from inside kernels, read back by get_counts and         *)
(* released by a user-called free().                                       *)
(*                                                                         *)
(* Two specifications share the same operations:                           *)
(*   Spec        a host that calls the public operations in any order, on  *)
(*               the constructed object or on one bitwise copy of it;      *)
(*   DriverSpec  main(): construct, pre_kernel, workload, get_counts, free.*)
(* The driver's literal sizes (4 counters, 1024 work items) are drawn from *)
(* 1..MaxN and 0..MaxW so that every interleaving can be enumerated.       *)
(* size_t arithmetic is not reduced modulo 2^64: no counter in the bounded *)
(* model comes anywhere near the wrap-around.                              *)
(***************************************************************************)
EXTENDS Integers, Sequences, FiniteSets, TLC

\* ---- bounds of the model ----
MaxN == 3
MaxW == 3
MaxGarbage == 1
MaxLaunch == 1

\* ---- values ----
Null == 0
Handles == {1, 2}
NoRet == -1
Indeterminate == -2
Objects == {"orig", "copy", "closure"}
HostObjects == {"orig", "copy"}
NotMade == [made |-> FALSE, queue |-> "none", N |-> 0, d_ptr |-> Null]
NoKernel == [kind |-> "none", k_ptr |-> Null, range |-> 0, via |-> "none"]
GarbageValues == 0..MaxGarbage

\* the literals of main()
MainCount == 4
MainW == 1024

VARIABLES
  obj,          \* the OutputCounter objects: queue, N, d_ptr
  alloc,        \* device allocator: handle -> "unused" | "live" | "freed"
  mem,          \* device memory: handle -> [0..N-1 -> size_t]
  nfree,        \* handle -> number of sycl::free calls made on it
  allocErr,     \* malloc_device could not satisfy the request
  pc,           \* where the host thread is
  kernel,       \* the last submitted parallel_for: kind, captured pointer, range
  pending,      \* work items of the submitted kernel that have not run yet
  ret,          \* work item -> value returned by its get_add_output
  a_counts,     \* device side of the sycl::buffer in get_counts
  host_counts,  \* the vector get_counts returns, kept until the host submits another kernel
  fault,        \* a work item faulted on the device
  sinceZero,    \* workloads submitted since the last completed zero-fill (-1: never zeroed)
  launched,     \* workloads submitted so far
  lastFree,     \* what the latest free() did: "freed" | "noop" ("none": not called yet)
  line          \* position in main()

vars == <<obj, alloc, mem, nfree, allocErr, pc, kernel, pending, ret,
          a_counts, host_counts, fault, sinceZero, launched, lastFree, line>>

deviceVars == <<alloc, mem, nfree>>

Range(n) == 0..(n - 1)

Zeros(n) == [i \in Range(n) |-> 0]

\* p[idx] is an access to a cell of a live allocation.  Any other access is
\* undefined: the work item faults or carries on, and a value read that way
\* is Indeterminate.
Valid(p, idx) == p # Null /\ alloc[p] = "live" /\ idx \in DOMAIN mem[p]

Live(p) == p # Null /\ alloc[p] = "live"

FreshHandle == CHOOSE h \in Handles :
                 alloc[h] = "unused" /\ \A g \in Handles : alloc[g] = "unused" => h <= g

\* sycl::malloc_device: a fresh allocation, or nullptr when the device cannot
\* satisfy the request (for zero bytes either result is allowed).
MallocDevice(n) == {Null, FreshHandle}

Init ==
  /\ obj = [c \in Objects |-> NotMade]
  /\ alloc = [h \in Handles |-> "unused"]
  /\ mem = [h \in Handles |-> <<>>]
  /\ nfree = [h \in Handles |-> 0]
  /\ allocErr = FALSE
  /\ pc = "start"
  /\ kernel = NoKernel
  /\ pending = {}
  /\ ret = <<>>
  /\ a_counts = <<>>
  /\ host_counts = <<>>
  /\ fault = FALSE
  /\ sinceZero = -1
  /\ launched = 0
  /\ lastFree = "none"
  /\ line = 113

\* OutputCounter(queue, N): stores the result of malloc_device unchecked; the
\* cells are not initialised.
Construct(n) ==
  /\ pc = "start"
  /\ \E p \in MallocDevice(n) :
       /\ obj' = [obj EXCEPT !["orig"] =
                    [made |-> TRUE, queue |-> "queue", N |-> n, d_ptr |-> p]]
       /\ allocErr' = (p = Null /\ n > 0)
       /\ IF p = Null
            THEN UNCHANGED <<alloc, mem>>
            ELSE /\ alloc' = [alloc EXCEPT ![p] = "live"]
                 /\ \E g \in [Range(n) -> GarbageValues] :
                      mem' = [mem EXCEPT ![p] = g]
  /\ pc' = "idle"
  /\ UNCHANGED <<nfree, kernel, pending, ret, a_counts, host_counts, fault,
                 sinceZero, launched, lastFree>>

OwnBufferCopy(o) == [o EXCEPT !.d_ptr = IF @ = Null THEN Null ELSE 2]

\* a bitwise copy of the object (the struct is trivially copyable)
BitwiseCopy(o) == o

Copy ==
  /\ pc = "idle"
  /\ obj["orig"].made
  /\ ~obj["copy"].made
  /\ obj' = [obj EXCEPT !["copy"] = BitwiseCopy(obj["orig"])]
  /\ UNCHANGED <<alloc, mem, nfree, allocErr, pc, kernel, pending, ret,
                 a_counts, host_counts, fault, sinceZero, launched, lastFree>>

\* sycl::free(p, queue).  Freeing an allocation that was already freed is
\* undefined: the process dies or carries on.
SyclFree(p) ==
  /\ nfree' = [nfree EXCEPT ![p] = @ + 1]
  /\ IF alloc[p] = "live"
       THEN alloc' = [alloc EXCEPT ![p] = "freed"] /\ pc' = pc
       ELSE UNCHANGED alloc /\ \E q \in {pc, "aborted"} : pc' = q

FreedPtrKept(p) == p

\* the value free() leaves in d_ptr
FreedPtr(p) == Null

FreeAllCopies(c) ==
  /\ pc = "idle"
  /\ obj[c].made
  /\ IF obj[c].d_ptr # Null
       THEN /\ SyclFree(obj[c].d_ptr)
            /\ obj' = [o \in Objects |->
                         IF obj[o].d_ptr = obj[c].d_ptr
                           THEN [obj[o] EXCEPT !.d_ptr = Null]
                           ELSE obj[o]]
            /\ lastFree' = "freed"
       ELSE /\ UNCHANGED <<obj, alloc, nfree, pc>>
            /\ lastFree' = "noop"
  /\ UNCHANGED <<mem, allocErr, kernel, pending, ret, a_counts, host_counts,
                 fault, sinceZero, launched>>

\* free(): releases the buffer and nulls the handle of this object
Free(c) ==
  /\ pc = "idle"
  /\ obj[c].made
  /\ IF obj[c].d_ptr # Null
       THEN /\ SyclFree(obj[c].d_ptr)
            /\ obj' = [obj EXCEPT ![c].d_ptr = FreedPtr(obj[c].d_ptr)]
            /\ lastFree' = "freed"
       ELSE /\ UNCHANGED <<obj, alloc, nfree, pc>>
            /\ lastFree' = "noop"
  /\ UNCHANGED <<mem, allocErr, kernel, pending, ret, a_counts, host_counts,
                 fault, sinceZero, launched>>

KernelRangeOneMore(n) == n + 1

\* number of work items pre_kernel and get_counts launch for an object of n cells
KernelRange(n) == n

\* pre_kernel(), up to the submit
PreKernelSubmit(c) ==
  /\ pc = "idle"
  /\ obj[c].made
  /\ kernel' = [kind |-> "zero", k_ptr |-> obj[c].d_ptr,
                range |-> KernelRange(obj[c].N), via |-> c]
  /\ pending' = Range(KernelRange(obj[c].N))
  /\ pc' = "pre_kernel"
  /\ host_counts' = <<>>
  /\ UNCHANGED <<obj, alloc, mem, nfree, allocErr, ret, a_counts,
                 fault, sinceZero, launched, lastFree>>

ZeroValueIdx(idx) == idx

\* the value a pre_kernel work item stores
ZeroValue(idx) == 0

\* one work item of pre_kernel: k_ptr[idx] = 0
ZeroItem(idx) ==
  /\ kernel.kind = "zero"
  /\ idx \in pending
  /\ pending' = pending \ {idx}
  /\ IF Valid(kernel.k_ptr, idx)
       THEN /\ mem' = [mem EXCEPT ![kernel.k_ptr][idx] = ZeroValue(idx)]
            /\ UNCHANGED fault
       ELSE /\ UNCHANGED mem
            /\ \E f \in {fault, TRUE} : fault' = f
  /\ UNCHANGED <<obj, alloc, nfree, allocErr, pc, kernel, ret, a_counts,
                 host_counts, sinceZero, launched, lastFree>>

WaitDoneNoBlock == TRUE

WaitDoneNever == FALSE

\* event::wait_and_throw(): returns once every work item has run, and does
\* not return normally when one of them faulted
WaitDone == pending = {}

ThrowsNever == FALSE

\* event::wait_and_throw(): a device fault of the kernel waited for is raised
\* as an error, which nothing in the program catches
Throws == fault

\* pre_kernel(), the wait_and_throw and the return
PreKernelReturn ==
  /\ pc = "pre_kernel"
  /\ WaitDone
  /\ IF Throws
       THEN pc' = "aborted" /\ UNCHANGED sinceZero
       ELSE /\ pc' = "idle"
            /\ sinceZero' = IF Live(kernel.k_ptr) THEN 0 ELSE sinceZero
  /\ UNCHANGED <<obj, alloc, mem, nfree, allocErr, kernel, pending, ret,
                 a_counts, host_counts, fault, launched, lastFree>>

\* get_counts(), up to the submit: host_counts(N) is value-initialised and
\* wrapped by the buffer b_counts
GetCountsSubmit(c) ==
  /\ pc = "idle"
  /\ obj[c].made
  /\ host_counts' = Zeros(obj[c].N)
  /\ a_counts' = Zeros(obj[c].N)
  /\ kernel' = [kind |-> "read", k_ptr |-> obj[c].d_ptr,
                range |-> KernelRange(obj[c].N), via |-> c]
  /\ pending' = Range(KernelRange(obj[c].N))
  /\ pc' = "get_counts"
  /\ UNCHANGED <<obj, alloc, mem, nfree, allocErr, ret, fault, sinceZero,
                 launched, lastFree>>

ReadIndexFirst(idx) == 0

\* the cell a get_counts work item reads for slot idx
ReadIndex(idx) == idx

ReadItemDestructive(idx) ==
  /\ kernel.kind = "read"
  /\ idx \in pending
  /\ pending' = pending \ {idx}
  /\ Valid(kernel.k_ptr, idx)
  /\ idx \in DOMAIN a_counts
  /\ a_counts' = [a_counts EXCEPT ![idx] = mem[kernel.k_ptr][idx]]
  /\ mem' = [mem EXCEPT ![kernel.k_ptr][idx] = 0]
  /\ UNCHANGED <<obj, alloc, nfree, allocErr, pc, kernel, ret, fault,
                 host_counts, sinceZero, launched, lastFree>>

\* one work item of get_counts: a_counts[idx] = k_ptr[idx]
ReadItem(idx) ==
  /\ kernel.kind = "read"
  /\ idx \in pending
  /\ pending' = pending \ {idx}
  /\ IF idx \in DOMAIN a_counts
       THEN IF Valid(kernel.k_ptr, ReadIndex(idx))
              THEN /\ a_counts' = [a_counts EXCEPT ![idx] =
                                     mem[kernel.k_ptr][ReadIndex(idx)]]
                   /\ UNCHANGED fault
              ELSE \E f \in {fault, TRUE} :
                     /\ fault' = f
                     /\ a_counts' = [a_counts EXCEPT ![idx] = Indeterminate]
       ELSE /\ UNCHANGED a_counts
            /\ \E f \in {fault, TRUE} : fault' = f
  /\ UNCHANGED <<obj, alloc, mem, nfree, allocErr, pc, kernel, ret,
                 host_counts, sinceZero, launched, lastFree>>

GetCountsReturnNoWriteBack ==
  /\ pc = "get_counts"
  /\ WaitDone
  /\ pc' = IF Throws THEN "aborted" ELSE "idle"
  /\ a_counts' = <<>>
  /\ UNCHANGED <<obj, alloc, mem, nfree, allocErr, kernel, pending, ret,
                 host_counts, fault, sinceZero, launched, lastFree>>

\* get_counts(), the wait_and_throw and the return: the buffer writes back
\* into the vector's storage when it is destroyed
GetCountsReturn ==
  /\ pc = "get_counts"
  /\ WaitDone
  /\ IF Throws
       THEN pc' = "aborted" /\ UNCHANGED host_counts
       ELSE pc' = "idle" /\ host_counts' = a_counts
  /\ a_counts' = <<>>
  /\ UNCHANGED <<obj, alloc, mem, nfree, allocErr, kernel, pending, ret,
                 fault, sinceZero, launched, lastFree>>

\* main(), lines 118-127: the kernel captures the object by value and each
\* work item targets counter idx % count
TargetIndexShifted(idx, n) == (idx + 1) % n

TargetIndex(idx, n) == idx % n

WorkloadSubmit(c, w) ==
  /\ pc = "idle"
  /\ obj[c].made
  /\ obj[c].N >= 1
  /\ launched < MaxLaunch
  /\ obj' = [obj EXCEPT !["closure"] = BitwiseCopy(obj[c])]
  /\ kernel' = [kind |-> "inc", k_ptr |-> obj[c].d_ptr, range |-> w, via |-> c]
  /\ pending' = Range(w)
  /\ ret' = [j \in Range(w) |-> NoRet]
  /\ pc' = "workload"
  /\ launched' = launched + 1
  /\ sinceZero' = IF sinceZero >= 0 THEN sinceZero + 1 ELSE sinceZero
  /\ host_counts' = <<>>
  /\ UNCHANGED <<alloc, mem, nfree, allocErr, a_counts, fault,
                 lastFree>>

\* fetch_add(1): the value returned and the value stored
FetchAddResultNew(old) == old + 1

FetchAddResult(old) == old

FetchAddStoredTwo(old) == old + 2

FetchAddStored(old) == old + 1

GetAddOutputFirstCell(j, index) ==
  LET p == obj["closure"].d_ptr IN
  IF Valid(p, index)
    THEN /\ ret' = [ret EXCEPT ![j] = mem[p][0]]
         /\ mem' = [mem EXCEPT ![p][0] = mem[p][0] + 1]
         /\ UNCHANGED fault
    ELSE /\ UNCHANGED mem
         /\ \E f \in {fault, TRUE} :
              /\ fault' = f
              /\ ret' = [ret EXCEPT ![j] = Indeterminate]

\* get_add_output(index) on the captured copy: one atomic read-modify-write
GetAddOutput(j, index) ==
  LET p == obj["closure"].d_ptr IN
  IF Valid(p, index)
    THEN /\ ret' = [ret EXCEPT ![j] = FetchAddResult(mem[p][index])]
         /\ mem' = [mem EXCEPT ![p][index] = FetchAddStored(mem[p][index])]
         /\ UNCHANGED fault
    ELSE /\ UNCHANGED mem
         /\ \E f \in {fault, TRUE} :
              /\ fault' = f
              /\ ret' = [ret EXCEPT ![j] = Indeterminate]

\* one work item of the workload
IncItem(j) ==
  /\ kernel.kind = "inc"
  /\ j \in pending
  /\ pending' = pending \ {j}
  /\ GetAddOutput(j, TargetIndex(j, obj["closure"].N))
  /\ UNCHANGED <<obj, alloc, nfree, allocErr, pc, kernel, a_counts,
                 host_counts, sinceZero, launched, lastFree>>

\* main(), line 128: wait_and_throw on the workload; the values the work
\* items got from get_add_output die with them
WorkloadReturn ==
  /\ pc = "workload"
  /\ WaitDone
  /\ pc' = IF Throws THEN "aborted" ELSE "idle"
  /\ ret' = [j \in DOMAIN ret |-> NoRet]
  /\ UNCHANGED <<obj, alloc, mem, nfree, allocErr, kernel, pending,
                 a_counts, host_counts, fault, sinceZero, launched, lastFree>>

\* ---- the device: any pending work item may run next ----
Device ==
  \/ \E idx \in Range(MaxN) : ZeroItem(idx)
  \/ \E idx \in Range(MaxN) : ReadItem(idx)
  \/ \E j \in Range(MaxW) : IncItem(j)

\* ---- Spec: a host that uses the operations in any order ----
HostConstruct == \E n \in 0..MaxN : Construct(n)
HostCopy == Copy
HostFree == \E c \in HostObjects : Free(c)
HostPreKernel == \E c \in HostObjects : PreKernelSubmit(c)
HostGetCounts == \E c \in HostObjects : GetCountsSubmit(c)
HostWorkload == \E c \in HostObjects : \E w \in 0..MaxW : WorkloadSubmit(c, w)

Next ==
  \/ HostConstruct /\ UNCHANGED line
  \/ HostCopy /\ UNCHANGED line
  \/ HostFree /\ UNCHANGED line
  \/ HostPreKernel /\ UNCHANGED line
  \/ HostGetCounts /\ UNCHANGED line
  \/ HostWorkload /\ UNCHANGED line
  \/ PreKernelReturn /\ UNCHANGED line
  \/ GetCountsReturn /\ UNCHANGED line
  \/ WorkloadReturn /\ UNCHANGED line
  \/ Device /\ UNCHANGED line

Spec == Init /\ [][Next]_vars

\* ---- DriverSpec: main() ----
Main113 == line = 113 /\ (\E n \in 1..MaxN : Construct(n)) /\ line' = 116
Main116 == line = 116 /\ PreKernelSubmit("orig") /\ line' = 118
Main118 == line = 118 /\ (\E w \in 0..MaxW : WorkloadSubmit("orig", w)) /\ line' = 131
Main131 == line = 131 /\ GetCountsSubmit("orig") /\ line' = 137
Main137 == line = 137 /\ Free("orig") /\ line' = 139
Main139 ==
  /\ line = 139
  /\ pc = "idle"
  /\ pc' = "done"
  /\ line' = 140
  /\ UNCHANGED <<obj, alloc, mem, nfree, allocErr, kernel, pending, ret,
                 a_counts, host_counts, fault, sinceZero, launched, lastFree>>

DriverNext ==
  \/ Main113
  \/ Main116
  \/ Main118
  \/ Main131
  \/ Main137
  \/ Main139
  \/ PreKernelReturn /\ UNCHANGED line
  \/ GetCountsReturn /\ UNCHANGED line
  \/ WorkloadReturn /\ UNCHANGED line
  \/ Device /\ UNCHANGED line

DriverSpec == Init /\ [][DriverNext]_vars

\* main() on a device that eventually runs every submitted work item, with a
\* host thread that keeps executing while it is not blocked
DriverFairSpec == Init /\ [][DriverNext]_vars /\ WF_vars(DriverNext)

\* ---- what the claims speak about ----

\* ceil(a / n) for a > -n, n >= 1
CeilDiv(a, n) == (a + n - 1) \div n

\* number of work items j in 0..W-1 that target counter i
Expected(W, n, i) == Cardinality({j \in Range(W) : TargetIndex(j, n) = i})

\* the workload's captured pointer and the number of items it was launched with
ClosurePtr == obj["closure"].d_ptr
ClosureN == obj["closure"].N
WorkloadW == Cardinality(DOMAIN ret)

\* a workload is the first one submitted after a completed pre_kernel, on a
\* buffer that is still allocated
AfterZeroFill == sinceZero = 1 /\ Live(ClosurePtr)

WorkloadComplete == kernel.kind = "inc" /\ pending = {}

\* C1: after a completed pre_kernel, once all W work items (item j targets
\* counter j mod count) have run in whatever order, counter i holds
\* ceil((W - i) / count), which is the number of items that target i; a
\* get_counts that follows returns exactly these values; and for count = 4,
\* W = 1024 the value is 256 for every counter.
C1_WorkloadCounts ==
  /\ (AfterZeroFill /\ WorkloadComplete) =>
       \A i \in Range(ClosureN) :
         /\ mem[ClosurePtr][i] = CeilDiv(WorkloadW - i, ClosureN)
         /\ mem[ClosurePtr][i] = Expected(WorkloadW, ClosureN, i)
  /\ (AfterZeroFill /\ kernel.kind = "read" /\ pc = "idle") =>
       /\ DOMAIN host_counts = Range(ClosureN)
       /\ \A i \in Range(ClosureN) :
            host_counts[i] = CeilDiv(WorkloadW - i, ClosureN)
  /\ \A i \in Range(MainCount) : CeilDiv(MainW - i, MainCount) = 256

C1_Witness ==
  /\ AfterZeroFill
  /\ kernel.kind = "read"
  /\ pc = "idle"
  /\ ClosureN = 2
  /\ WorkloadW = 3
  /\ host_counts = (0 :> 2 @@ 1 :> 1)

\* the work items of the running workload that have called get_add_output(i)
DoneOn(i) == {j \in DOMAIN ret : j \notin pending /\ TargetIndex(j, ClosureN) = i}

\* C2: in a workload that follows a completed pre_kernel, the values returned
\* so far by the calls on counter i are exactly 0..k-1, k the number of those
\* calls, and no two calls on i returned the same value.
C2_UniquePositions ==
  (AfterZeroFill /\ kernel.kind = "inc" /\ pc = "workload") =>
    \A i \in Range(ClosureN) :
      /\ {ret[j] : j \in DoneOn(i)} = Range(Cardinality(DoneOn(i)))
      /\ \A j1, j2 \in DoneOn(i) : ret[j1] = ret[j2] => j1 = j2

C2_Witness ==
  /\ AfterZeroFill
  /\ kernel.kind = "inc"
  /\ pc = "workload"
  /\ pending = {}
  /\ ClosureN = 1
  /\ WorkloadW = 3
  /\ ret[2] = 0
  /\ ret[0] = 2

\* C3: the first free() on an object with a live handle calls sycl::free once
\* and leaves d_ptr null; a free() on an object whose d_ptr is null calls
\* nothing and changes neither the object nor the device; so no allocation is
\* freed more often than there are objects that free() was called on, and at
\* most once when there is no copy.
C3_FreeStep(c) ==
  Free(c) =>
    /\ obj'[c].d_ptr = Null
    /\ obj[c].d_ptr = Null =>
         /\ UNCHANGED <<obj, alloc, mem, nfree>>
         /\ lastFree' = "noop"
    /\ Live(obj[c].d_ptr) =>
         /\ alloc'[obj[c].d_ptr] = "freed"
         /\ nfree'[obj[c].d_ptr] = nfree[obj[c].d_ptr] + 1
         /\ lastFree' = "freed"

C3_FreedAtMostOnce ==
  \A h \in Handles :
    /\ nfree[h] <= Cardinality({c \in HostObjects : obj[c].made})
    /\ lastFree = "noop" /\ ~obj["copy"].made => nfree[h] <= 1

C3_SecondFreeNoOp ==
  /\ []C3_FreedAtMostOnce
  /\ [][\A c \in HostObjects : C3_FreeStep(c)]_vars

C3_Witness ==
  /\ lastFree = "noop"
  /\ ~obj["copy"].made
  /\ obj["orig"].d_ptr = Null
  /\ alloc[1] = "freed"
  /\ nfree[1] = 1

\* C4: when malloc_device cannot satisfy the request, construction fails: no
\* constructed object is left for the host to use.
C4_AllocationFailurePropagates ==
  allocErr => (~obj["orig"].made \/ pc = "aborted")

\* C5: whenever a pre_kernel has returned on a live buffer and no workload
\* has been submitted since (other operations, a second pre_kernel included,
\* may have run or be running), the buffer has N cells and all are zero.
C5_ZeroFill ==
  \A h \in Handles :
    (sinceZero = 0 /\ alloc[h] = "live") =>
      /\ \E c \in HostObjects : obj[c].d_ptr = h /\ DOMAIN mem[h] = Range(obj[c].N)
      /\ \A i \in DOMAIN mem[h] : mem[h][i] = 0

C5_Witness ==
  /\ sinceZero = 0
  /\ pc = "pre_kernel"
  /\ pending = {}
  /\ Live(kernel.k_ptr)
  /\ kernel.range = 3
  /\ mem[kernel.k_ptr] = Zeros(3)

\* C6: when get_counts has returned to a host with no kernel in flight, the
\* result has N elements and element i is the value of cell i; after a
\* pre_kernel and before any increment the result is all zeros.
C6_Readback ==
  (pc = "idle" /\ kernel.kind = "read") =>
    /\ DOMAIN host_counts = Range(obj[kernel.via].N)
    /\ Live(kernel.k_ptr) =>
         /\ \A i \in Range(obj[kernel.via].N) :
              host_counts[i] = mem[kernel.k_ptr][i]
         /\ sinceZero = 0 => host_counts = Zeros(obj[kernel.via].N)

C6_Witness ==
  /\ pc = "idle"
  /\ kernel.kind = "read"
  /\ Live(kernel.k_ptr)
  /\ sinceZero = -1
  /\ host_counts = (0 :> 1 @@ 1 :> 0)

\* C7: with N = 0 and a single object, nothing faults: pre_kernel and
\* get_counts launch no work item, no cell exists, get_counts returns the
\* empty sequence, and after free() the object holds null and nothing is
\* left allocated.
C7_ZeroCount ==
  (obj["orig"].made /\ obj["orig"].N = 0 /\ ~obj["copy"].made) =>
    /\ ~fault
    /\ pc # "aborted"
    /\ pending = {}
    /\ \A h \in Handles : mem[h] = <<>>
    /\ host_counts = <<>>
    /\ lastFree # "none" =>
         /\ obj["orig"].d_ptr = Null
         /\ \A h \in Handles : alloc[h] # "live"

C7_Witness ==
  /\ obj["orig"].made
  /\ obj["orig"].N = 0
  /\ ~obj["copy"].made
  /\ sinceZero = 0
  /\ kernel.kind = "read"
  /\ pc = "idle"
  /\ host_counts = <<>>
  /\ lastFree = "freed"
  /\ alloc[1] = "freed"

\* the d_ptr of a host object is null or a valid handle to exactly N cells
ValidOrEmpty(c) ==
  \/ obj[c].d_ptr = Null
  \/ Live(obj[c].d_ptr) /\ DOMAIN mem[obj[c].d_ptr] = Range(obj[c].N)

\* the d_ptr of a host object dangles: its buffer was released by a free()
\* called on another copy, which now holds null
Dangling(c) ==
  /\ obj[c].d_ptr # Null
  /\ alloc[obj[c].d_ptr] = "freed"
  /\ \E c2 \in HostObjects \ {c} : obj[c2].made /\ obj[c2].d_ptr = Null

\* no step revives a released buffer or a released object, and N is fixed
C8_OneDirectional ==
  /\ \A h \in Handles :
       /\ alloc[h] = "freed" => alloc'[h] = "freed"
       /\ alloc[h] = "live" => alloc'[h] \in {"live", "freed"}
  /\ \A c \in HostObjects :
       obj[c].made =>
         /\ obj'[c].made
         /\ obj'[c].N = obj[c].N
         /\ obj[c].d_ptr = Null => obj'[c].d_ptr = Null

\* C8 as stated, its state part: in every reachable state the d_ptr of every
\* object is a valid handle to exactly N cells or null.  (The two step parts
\* of the claim, no way back to allocated and a fixed N, are
\* C8_OneDirectional.)
C8_AsStated ==
  \A c \in HostObjects : obj[c].made => ValidOrEmpty(c)

\* C8, amended: the d_ptr of every object is a valid handle to exactly N
\* cells, or null, or - in a bitwise copy other than the one free() was
\* called on - a dangling handle to the released buffer; no step moves a
\* released buffer or object back to allocated, and N never changes.
C8_Lifecycle ==
  /\ [](\A c \in HostObjects : obj[c].made => (ValidOrEmpty(c) \/ Dangling(c)))
  /\ [][C8_OneDirectional]_vars

C8_Witness ==
  /\ obj["orig"].made
  /\ obj["orig"].d_ptr = Null
  /\ lastFree = "freed"
  /\ obj["copy"].made
  /\ Dangling("copy")
  /\ obj["copy"].N = 2

\* C9: in main() a buffer that has been freed has no work item pending and
\* the host is past line 137 with nothing left to submit; while work items
\* are pending the host is blocked in the wait of the operation that
\* submitted them, and nothing has been freed.
C9_DriverOrdering ==
  /\ (\E h \in Handles : alloc[h] = "freed") =>
       /\ pending = {}
       /\ line \in {139, 140}
       /\ pc \in {"idle", "done"}
  /\ pending # {} =>
       /\ pc \in {"pre_kernel", "get_counts", "workload"}
       /\ \A h \in Handles : alloc[h] # "freed"
       /\ lastFree = "none"
  /\ pc \in {"pre_kernel", "get_counts", "workload"} => lastFree = "none"

C9_Witness ==
  /\ line = 140
  /\ pc = "done"
  /\ alloc[1] = "freed"
  /\ lastFree = "freed"
  /\ WorkloadW = 3
  /\ ClosureN = 2
  /\ host_counts = (0 :> 2 @@ 1 :> 1)

\* C10: all copies of an object hold the same handle; what the work items
\* added through the captured copy is what get_counts on the original
\* returns; and once the buffer was released through one copy it is not live
\* for any other copy that still holds the handle.
C10_SharedBuffer ==
  /\ \A a, b \in Objects :
       (obj[a].made /\ obj[b].made /\ obj[a].d_ptr # Null /\ obj[b].d_ptr # Null)
         => obj[a].d_ptr = obj[b].d_ptr
  /\ (pc = "idle" /\ kernel.kind = "read" /\ kernel.via = "orig"
        /\ obj["closure"].made /\ Live(ClosurePtr)) =>
       /\ \A i \in Range(ClosureN) : host_counts[i] = mem[ClosurePtr][i]
       /\ sinceZero = 1 =>
            \A i \in Range(ClosureN) :
              host_counts[i] = Expected(WorkloadW, ClosureN, i)
  /\ \A h \in Handles :
       nfree[h] >= 1 => \A c \in Objects : obj[c].d_ptr = h => ~Live(obj[c].d_ptr)

C10_Witness ==
  /\ pc = "idle"
  /\ kernel.kind = "read"
  /\ kernel.via = "orig"
  /\ obj["copy"].made
  /\ obj["closure"].made
  /\ Live(ClosurePtr)
  /\ sinceZero = 1
  /\ ClosureN = 1
  /\ host_counts = (0 :> 3)

\* C11 as stated: across all copies, sycl::free is called at most once on an
\* allocation.
C11_AsStated ==
  \A h \in Handles : nfree[h] <= 1

\* the host objects on which free() has been called or that were copied from
\* such an object: they hold null
NullObjects == {c \in HostObjects : obj[c].made /\ obj[c].d_ptr = Null}

\* a free() on c that calls sycl::free on an allocation already released
DoubleFree(c) == Free(c) /\ obj[c].d_ptr # Null /\ alloc[obj[c].d_ptr] = "freed"

\* C11, amended: an allocation changes from live to freed at most once and
\* each copy calls sycl::free on it at most once, so there are never more
\* sycl::free calls than copies holding null; but the guard is per copy: a
\* free() through another copy that still holds the handle calls sycl::free
\* again on the released allocation.
C11_FreeAcrossCopies ==
  /\ [](\A h \in Handles :
          /\ nfree[h] <= Cardinality(NullObjects)
          /\ (nfree[h] >= 1) <=> (alloc[h] = "freed"))
  /\ [][\A c \in HostObjects :
          /\ DoubleFree(c) => /\ nfree'[obj[c].d_ptr] = nfree[obj[c].d_ptr] + 1
                              /\ NullObjects # {}
                              /\ c \notin NullObjects
          /\ \A h \in Handles :
               (Free(c) /\ nfree'[h] > nfree[h]) => obj[c].d_ptr = h]_vars

C11_Witness ==
  /\ nfree[1] = 2
  /\ alloc[1] = "freed"
  /\ NullObjects = HostObjects
  /\ pc = "idle"

\* the counter work item j of the running workload targets
TargetOf(j) == TargetIndex(j, ClosureN)

\* C12: a get_add_output(i) call on a live buffer adds one to cell i and
\* changes nothing else: every other cell, every object (queue, N, d_ptr),
\* the allocator and the values already returned to other work items stay as
\* they are; the value it returns is the old value of cell i, which after a
\* zero-fill is the number of earlier calls on i, whatever ran on other
\* counters in between.
C12_IncStep(j) ==
  (IncItem(j) /\ Live(ClosurePtr)) =>
    /\ mem'[ClosurePtr][TargetOf(j)] = mem[ClosurePtr][TargetOf(j)] + 1
    /\ ret'[j] = mem[ClosurePtr][TargetOf(j)]
    /\ \A h \in Handles : \A i \in DOMAIN mem[h] :
         (h # ClosurePtr \/ i # TargetOf(j)) => mem'[h][i] = mem[h][i]
    /\ \A k \in DOMAIN ret : k # j => ret'[k] = ret[k]
    /\ UNCHANGED <<obj, alloc, nfree>>
    /\ sinceZero = 1 => ret'[j] = Cardinality(DoneOn(TargetOf(j)))

C12_IncrementFrame ==
  [][\A j \in Range(MaxW) : C12_IncStep(j)]_vars

C12_Witness ==
  /\ AfterZeroFill
  /\ kernel.kind = "inc"
  /\ pc = "workload"
  /\ ClosureN = 2
  /\ WorkloadW = 3
  /\ pending = {1}
  /\ ret[0] = 1
  /\ ret[2] = 0
  /\ mem[ClosurePtr] = (0 :> 2 @@ 1 :> 0)

\* a step of get_counts: its submit, one of its work items, or its return
GetCountsStep ==
  \/ \E c \in HostObjects : GetCountsSubmit(c)
  \/ \E idx \in Range(MaxN) : ReadItem(idx)
  \/ GetCountsReturn

\* a step of a pre_kernel or get_add_output work item
WriterStep ==
  \/ \E idx \in Range(MaxN) : ZeroItem(idx)
  \/ \E j \in Range(MaxW) : IncItem(j)

\* C13: the values of the device cells change only in steps of pre_kernel
\* and get_add_output work items; get_counts changes no cell, no d_ptr and no
\* N; free() changes no cell; the constructor only allocates the cells and
\* stores nothing in them.
C13_Step ==
  /\ GetCountsStep => UNCHANGED <<mem, obj, alloc, nfree>>
  /\ (\E c \in HostObjects : Free(c)) => UNCHANGED mem
  /\ (\E n \in 0..MaxN : Construct(n)) =>
       \A h \in Handles :
         /\ alloc[h] # "unused" => mem'[h] = mem[h]
         /\ mem'[h] # mem[h] => alloc'[h] = "live" /\ DOMAIN mem'[h] = Range(obj'["orig"].N)
  /\ (mem' # mem /\ pc # "start") => WriterStep

C13_OnlyKernelsWrite ==
  [][C13_Step]_vars

C13_Witness ==
  /\ pc = "idle"
  /\ kernel.kind = "read"
  /\ Live(kernel.k_ptr)
  /\ sinceZero = -1
  /\ launched = 1
  /\ WorkloadW = 2
  /\ lastFree = "none"
  /\ host_counts = (0 :> 2 @@ 1 :> 1)
  /\ mem[kernel.k_ptr] = (0 :> 2 @@ 1 :> 1)

\* the host is blocked in the wait of the kernel it submitted last
HostWaiting ==
  \/ kernel.kind = "zero" /\ pc = "pre_kernel"
  \/ kernel.kind = "read" /\ pc = "get_counts"
  \/ kernel.kind = "inc" /\ pc = "workload"

\* C14: work items are pending only while the host is blocked in the wait of
\* the operation that submitted them, and they all belong to that one kernel;
\* whenever the host has control no work item is pending; a kernel is
\* submitted only when nothing of an earlier one is pending.
C14_Synchronous ==
  /\ [](/\ pending # {} => HostWaiting
        /\ pending \subseteq Range(kernel.range)
        /\ pc \in {"start", "idle", "aborted", "done"} => pending = {})
  /\ [][kernel' # kernel => (pending = {} /\ pc = "idle")]_vars

C14_Witness ==
  /\ pc = "idle"
  /\ kernel.kind = "inc"
  /\ kernel.range = 3
  /\ pending = {}
  /\ ~fault
  /\ AfterZeroFill
  /\ mem[ClosurePtr] = (0 :> 1 @@ 1 :> 1 @@ 2 :> 1)

\* C15: once a work item of pre_kernel, get_counts or the workload has
\* faulted, the host never regains control: it is still blocked in the wait
\* of that operation or the error has ended the program, and a program ended
\* this way takes no further step.
C15_FaultSurfaces ==
  /\ [](fault => (HostWaiting \/ pc = "aborted"))
  /\ [][pc # "aborted"]_vars

C15_Witness ==
  /\ fault
  /\ pc = "aborted"
  /\ kernel.kind = "inc"
  /\ kernel.range = 2
  /\ pending = {}
  /\ lastFree = "freed"

\* get_counts was called on a live buffer that no pre_kernel and no workload
\* has touched since construction
ReadBeforeZeroFill ==
  kernel.kind = "read" /\ Live(kernel.k_ptr) /\ sinceZero = -1 /\ launched = 0

\* C16: the constructor leaves the cells with whatever the allocation held;
\* a get_counts before any pre_kernel does not fault, and returns N values,
\* element i being that unspecified content of cell i.
C16_ReadUninitialised ==
  /\ (pc = "idle" /\ kernel = NoKernel) =>
       \A h \in Handles : \A i \in DOMAIN mem[h] : mem[h][i] \in GarbageValues
  /\ ReadBeforeZeroFill =>
       /\ ~fault
       /\ pc \in {"get_counts", "idle"}
       /\ pc = "idle" =>
            /\ DOMAIN host_counts = Range(obj[kernel.via].N)
            /\ \A i \in DOMAIN host_counts :
                 /\ host_counts[i] = mem[kernel.k_ptr][i]
                 /\ host_counts[i] \in GarbageValues

C16_Witness ==
  /\ ReadBeforeZeroFill
  /\ pc = "idle"
  /\ kernel.via = "orig"
  /\ ~obj["copy"].made
  /\ host_counts = (0 :> 1 @@ 1 :> 0 @@ 2 :> 1)

\* a workload that follows a completed pre_kernel is running on a live buffer
WorkloadRunning == AfterZeroFill /\ kernel.kind = "inc" /\ pc = "workload"

\* C17: at every moment of a workload that follows a completed pre_kernel,
\* cell i holds the number of get_add_output(i) calls that have taken effect
\* so far, which never exceeds the number of work items that target i, and no
\* step of the workload lowers a cell.
C17_RunningCounts ==
  /\ [](WorkloadRunning =>
          \A i \in Range(ClosureN) :
            /\ mem[ClosurePtr][i] = Cardinality(DoneOn(i))
            /\ mem[ClosurePtr][i] <= Expected(WorkloadW, ClosureN, i))
  /\ [][(WorkloadRunning /\ pc' = "workload") =>
          \A i \in Range(ClosureN) : mem'[ClosurePtr][i] >= mem[ClosurePtr][i]]_vars

C17_Witness ==
  /\ WorkloadRunning
  /\ ClosureN = 2
  /\ WorkloadW = 3
  /\ pending = {0, 1}
  /\ mem[ClosurePtr] = (0 :> 1 @@ 1 :> 0)

\* C18: free() on one object leaves every other object as it was: a copy
\* that held the handle (the driver's kernel closure included) still holds
\* it, non-null, after the release; and a free() on an object with a non-null
\* handle goes on to sycl::free whether or not the allocation is still live.
C18_FreeStep(c) ==
  Free(c) =>
    /\ \A o \in Objects \ {c} : obj'[o] = obj[o]
    /\ \A o \in Objects \ {c} :
         (obj[c].d_ptr # Null /\ obj[o].d_ptr = obj[c].d_ptr) =>
           /\ obj'[o].d_ptr # Null
           /\ alloc'[obj'[o].d_ptr] = "freed"
    /\ obj[c].d_ptr # Null =>
         /\ lastFree' = "freed"
         /\ nfree'[obj[c].d_ptr] = nfree[obj[c].d_ptr] + 1

C18_FreeResetsOnlyThis ==
  [][\A c \in HostObjects : C18_FreeStep(c)]_vars

C18_Witness ==
  /\ obj["orig"].made
  /\ obj["orig"].d_ptr = Null
  /\ lastFree = "freed"
  /\ obj["closure"].made
  /\ ClosurePtr # Null
  /\ alloc[ClosurePtr] = "freed"
  /\ nfree[ClosurePtr] = 1
  /\ ~obj["copy"].made

\* main() has returned: the buffer handle of output_counter_4 is null and no
\* work item is pending
DriverTerminated ==
  /\ pc = "done"
  /\ line = 140
  /\ obj["orig"].d_ptr = Null
  /\ pending = {}

\* C19: when work items are scheduled fairly and no work item faults, main()
\* terminates: it passes every wait and ends, for good, with the handle
\* released and nothing pending.
C19_DriverTerminates ==
  <>[](fault \/ DriverTerminated)

C19_Witness ==
  /\ DriverTerminated
  /\ ~fault
  /\ lastFree = "freed"
  /\ alloc[1] = "freed"
  /\ sinceZero = 1
  /\ kernel.kind = "read"
  /\ obj["orig"].N = 3

====
